---- MODULE Spec2Model ----
(***************************************************************************)
(* Sudoku Battle: the game store (gameSlice), the multiplayer store built  *)
(* on it (setRemoteState) and the auto-fill hook that drives setCellValue  *)
(* from timers.                                                            *)
(*                                                                         *)
(* The board is the real 9x9 grid.  A puzzle string and a solution string  *)
(* are sequences of 81 one-character strings; parseBoard / validateMove    *)
(* convert between characters and numbers as the code does.                *)
(***************************************************************************)
EXTENDS Integers, Sequences, FiniteSets, TLC

(***************************************************************************)
(* Bounds of the model                                                     *)
(***************************************************************************)
MaxHistory == 2          \* longest undo history explored
MaxTimers  == 1          \* most auto-fill timeouts pending at once

(***************************************************************************)
(* Values                                                                  *)
(***************************************************************************)
Null == 0                \* TypeScript null in a (number | null) cell
NaN  == -1               \* parseInt of a non-digit

Idle    == "idle"
Playing == "playing"
Won     == "won"
Lost    == "lost"
Disconnected == "disconnected"

Waiting  == "waiting"
Finished == "finished"

Rows == 0..8
Cols == 0..8
Cells == Rows \X Cols

\* `${row},${col}`
cellKey(row, col) == <<row, col>>

\* value.toString() for a digit
toString(v) ==
    CASE v = 1 -> "1" [] v = 2 -> "2" [] v = 3 -> "3" [] v = 4 -> "4"
      [] v = 5 -> "5" [] v = 6 -> "6" [] v = 7 -> "7" [] v = 8 -> "8"
      [] v = 9 -> "9" [] OTHER -> "?"

\* parseInt(char) for one character
parseInt(ch) ==
    CASE ch = "1" -> 1 [] ch = "2" -> 2 [] ch = "3" -> 3 [] ch = "4" -> 4
      [] ch = "5" -> 5 [] ch = "6" -> 6 [] ch = "7" -> 7 [] ch = "8" -> 8
      [] ch = "9" -> 9 [] OTHER -> NaN

\* Array(9).fill(null).map(() => Array(9).fill(null))
EmptyBoard == [r \in Rows |-> [c \in Cols |-> Null]]

\* Array(9).fill(null).map(() => Array(9).fill(null).map(() => []))
EmptyNotes == [r \in Rows |-> [c \in Cols |-> <<>>]]

parseBoard(puzzleString) ==
    [i \in Rows |-> [j \in Cols |->
        IF puzzleString[i * 9 + j + 1] = "-" THEN Null
        ELSE parseInt(puzzleString[i * 9 + j + 1])]]

countEmpty(b) == Cardinality({cell \in Cells : b[cell[1]][cell[2]] = Null})

\* solution[index] === value.toString(); indexing past the end of a string
\* gives undefined, which equals no digit string
validateMove(sol, row, col, value) ==
    LET index == row * 9 + col
    IN  /\ index + 1 \in DOMAIN sol
        /\ sol[index + 1] = toString(value)

(***************************************************************************)
(* The puzzle generator (sudoku-gen behind generatePuzzle): a solved grid  *)
(* and the same grid with some cells blanked.  SolDigit(k, ..) is a valid  *)
(* sudoku for every shift k.                                               *)
(***************************************************************************)
SolDigit(k, r, c) == ((3 * (r % 3) + (r \div 3) + c + k) % 9) + 1

SolutionString(k) ==
    [i \in 1..81 |-> toString(SolDigit(k, (i - 1) \div 9, (i - 1) % 9))]

PuzzleString(k, blanks) ==
    [i \in 1..81 |->
        IF <<(i - 1) \div 9, (i - 1) % 9>> \in blanks THEN "-"
        ELSE toString(SolDigit(k, (i - 1) \div 9, (i - 1) % 9))]

PuzzleData(k, blanks, diff) ==
    [puzzle |-> PuzzleString(k, blanks), solution |-> SolutionString(k),
     difficulty |-> diff]

\* what generatePuzzle(difficulty) may return
generatePuzzle(diff) ==
    IF diff = "easy"
    THEN {PuzzleData(0, {<<0, 0>>, <<0, 1>>}, "easy")}
    ELSE {PuzzleData(1, {<<0, 1>>}, diff)}

Difficulties == {"easy", "hard"}

\* cells and values the player's input is drawn from
PlayCells  == {<<0, 0>>, <<0, 1>>}
PlayValues == {Null, 1, 2}
NoteCells  == {<<0, 1>>}
NoteDigits == {1}

(***************************************************************************)
(* State: the store (gameSlice fields, then the multiplayer store's own    *)
(* fields), the auto-fill hook of the mounted game component, and which    *)
(* of the two stores/components this is.                                   *)
(***************************************************************************)
VARIABLES board, initialBoard, solution, difficulty, status, mistakes,
          mistakeCells, history, notes, progress,
          players, roomStatus, ownerId,
          timers, activeAutoFillCell,
          mode

sliceVars == <<board, initialBoard, solution, difficulty, status, mistakes,
               mistakeCells, history, notes, progress>>
roomVars  == <<players, roomStatus, ownerId>>
hookVars  == <<timers, activeAutoFillCell>>

\* the battle-score record battleScores/<my uid>/<opponent uid> in the
\* database and the recordBattleResult transactions running on it
VARIABLES ledger, txn

ledgerVars == <<ledger, txn>>

\* dbRoom is one room in the database (rooms/<roomId>); then the joinRoom and startGame
\* calls running on it, and the clients that show the room in their game
\* component: each client's store status and room view, the component's
\* timers and refs, and the recordBattleResult calls it has made
VARIABLES dbRoom, join, start, client, recorded

lobbyVars == <<dbRoom, join, start>>

matchVars == <<client, recorded>>

\* what lies outside the store and its game component
backendVars == <<ledgerVars, lobbyVars, matchVars>>

vars == <<sliceVars, roomVars, hookVars, mode, backendVars>>

\* players: {}
NoPlayers == [p \in {} |-> Null]

\* ownerId: null
NoOwner == "null"

\* useState<{r, c} | null>(null)
NoCell == <<>>

\* the store's state as one object, as get() returns it
S == [board |-> board, initialBoard |-> initialBoard, solution |-> solution,
      difficulty |-> difficulty, status |-> status, mistakes |-> mistakes,
      mistakeCells |-> mistakeCells, history |-> history, notes |-> notes,
      progress |-> progress,
      players |-> players, roomStatus |-> roomStatus, ownerId |-> ownerId]

\* set(...): the store takes the state s
Commit(s) ==
    /\ board' = s.board
    /\ initialBoard' = s.initialBoard
    /\ solution' = s.solution
    /\ difficulty' = s.difficulty
    /\ status' = s.status
    /\ mistakes' = s.mistakes
    /\ mistakeCells' = s.mistakeCells
    /\ history' = s.history
    /\ notes' = s.notes
    /\ progress' = s.progress
    /\ players' = s.players
    /\ roomStatus' = s.roomStatus
    /\ ownerId' = s.ownerId

InitialState ==
    [board |-> EmptyBoard, initialBoard |-> EmptyBoard, solution |-> <<>>,
     difficulty |-> "easy", status |-> Idle, mistakes |-> 0,
     mistakeCells |-> {}, history |-> <<>>, notes |-> EmptyNotes,
     progress |-> 81,
     players |-> NoPlayers, roomStatus |-> Waiting, ownerId |-> NoOwner]

(***************************************************************************)
(* gameSlice operations as functions of the store state                    *)
(***************************************************************************)
StartGame(s, puzzleData) ==
    LET parsedBoard == parseBoard(puzzleData.puzzle)
    IN  [s EXCEPT !.board = parsedBoard,
                  !.initialBoard = parsedBoard,
                  !.solution = puzzleData.solution,
                  !.difficulty = puzzleData.difficulty,
                  !.status = Playing,
                  !.mistakes = 0,
                  !.mistakeCells = {},
                  !.history = <<>>,
                  !.notes = EmptyNotes,
                  !.progress = countEmpty(parsedBoard)]

\* what the try block of startGame gets from the generator: a puzzle, or an
\* exception
Thrown == [threw |-> TRUE]

Returned(puzzleData) == [threw |-> FALSE, value |-> puzzleData]

generateOutcomes(diff) ==
    {Returned(pd) : pd \in generatePuzzle(diff)} \cup {Thrown}

\* a variant whose catch block leaves the session Playing
StartGameCatch_playing(s) == [s EXCEPT !.status = Playing]

\* the catch block of startGame: the error is logged, set() was not reached
StartGameCatch(s) == s

\* startGame with its try / catch
TryStartGame(s, outcome) ==
    IF outcome.threw THEN StartGameCatch(s) ELSE StartGame(s, outcome.value)

\* a variant without the early return on an unchanged value
Rejected_noSameValue(s, row, col, value) ==
    \/ s.status = Won \/ s.status = Lost
    \/ s.initialBoard[row][col] # Null

\* the three early returns of setCellValue
Rejected(s, row, col, value) ==
    \/ s.status = Won \/ s.status = Lost
    \/ s.initialBoard[row][col] # Null
    \/ s.board[row][col] = value

\* a variant that forgets the increment when a cell is cleared
progressAfterMove_noClear(prog, currentValue, value) ==
    IF currentValue = Null /\ value # Null THEN prog - 1 ELSE prog

\* Progress Update Logic
progressAfterMove(prog, currentValue, value) ==
    IF currentValue = Null /\ value # Null THEN prog - 1
    ELSE IF currentValue # Null /\ value = Null THEN prog + 1
    ELSE prog

\* Check validity: a cleared cell counts as valid
isValidMove(sol, row, col, value) ==
    IF value # Null THEN validateMove(sol, row, col, value) ELSE TRUE

\* a variant that gives a life back when a digit is valid
mistakesAfterMove_refund(count, isValid) ==
    IF ~isValid THEN count + 1 ELSE IF count > 0 THEN count - 1 ELSE count

mistakesAfterMove(count, isValid) ==
    IF ~isValid THEN count + 1 ELSE count

\* a variant that keeps the mark of a cell that was cleared or corrected
mistakeCellsAfterMove_keep(cells, key, isValid) ==
    IF ~isValid THEN cells \cup {key} ELSE cells

mistakeCellsAfterMove(cells, key, isValid) ==
    IF ~isValid THEN cells \cup {key} ELSE cells \ {key}

\* a variant that loses on the second mistake
statusAfterMove_earlyLoss(st, newMistakes, prog, newProgress, newMistakeCells) ==
    IF newMistakes >= 2 THEN Lost
    ELSE IF (prog <= 8 \/ newProgress = 0)
            /\ newProgress = 0 /\ newMistakeCells = {}
         THEN Won
         ELSE st

\* Check for Game Over (Loss) or Victory
statusAfterMove(st, newMistakes, prog, newProgress, newMistakeCells) ==
    IF newMistakes >= 3 THEN Lost
    ELSE IF (prog <= 8 \/ newProgress = 0)
            /\ newProgress = 0 /\ newMistakeCells = {}
         THEN Won
         ELSE st

SetCellValue(s, row, col, value) ==
    IF Rejected(s, row, col, value) THEN s
    ELSE
    LET currentValue == s.board[row][col]
        newProgress == progressAfterMove(s.progress, currentValue, value)
        isValid == isValidMove(s.solution, row, col, value)
        newMistakes == mistakesAfterMove(s.mistakes, isValid)
        newMistakeCells ==
            mistakeCellsAfterMove(s.mistakeCells, cellKey(row, col), isValid)
        newStatus == statusAfterMove(s.status, newMistakes, s.progress,
                                     newProgress, newMistakeCells)
    IN  [s EXCEPT !.history = Append(@, [row |-> row, col |-> col,
                                         oldValue |-> currentValue]),
                  !.board[row][col] = value,
                  !.mistakes = newMistakes,
                  !.mistakeCells = newMistakeCells,
                  !.status = newStatus,
                  !.progress = newProgress,
                  !.notes[row][col] = IF value # Null THEN <<>> ELSE @]

\* cellNotes.filter(n => n !== num)
RECURSIVE filterOut(_, _)
filterOut(seq, num) ==
    IF seq = <<>> THEN <<>>
    ELSE IF Head(seq) = num THEN filterOut(Tail(seq), num)
         ELSE <<Head(seq)>> \o filterOut(Tail(seq), num)

\* [...cellNotes, num].sort(): insertion of one digit into an ascending
\* array (the default sort compares the decimal strings; for single digits
\* that is the numeric order)
RECURSIVE sortedInsert(_, _)
sortedInsert(seq, num) ==
    IF seq = <<>> THEN <<num>>
    ELSE IF num <= Head(seq) THEN <<num>> \o seq
         ELSE <<Head(seq)>> \o sortedInsert(Tail(seq), num)

includes(seq, num) == \E i \in DOMAIN seq : seq[i] = num

\* a variant that checks the given clue only
ToggleNote_givenOnly(s, row, col, num) ==
    IF s.initialBoard[row][col] # Null THEN s
    ELSE IF includes(s.notes[row][col], num)
         THEN [s EXCEPT !.notes[row][col] = filterOut(@, num)]
         ELSE [s EXCEPT !.notes[row][col] = sortedInsert(@, num)]

ToggleNote(s, row, col, num) ==
    IF s.initialBoard[row][col] # Null \/ s.board[row][col] # Null THEN s
    ELSE IF includes(s.notes[row][col], num)
         THEN [s EXCEPT !.notes[row][col] = filterOut(@, num)]
         ELSE [s EXCEPT !.notes[row][col] = sortedInsert(@, num)]

\* a variant that forgets the decrement when undo puts a digit back
progressAfterUndo_noRefill(prog, currentValue, oldValue) ==
    IF currentValue # Null /\ oldValue = Null THEN prog + 1 ELSE prog

\* Revert progress: current -> old
progressAfterUndo(prog, currentValue, oldValue) ==
    IF currentValue # Null /\ oldValue = Null THEN prog + 1
    ELSE IF currentValue = Null /\ oldValue # Null THEN prog - 1
    ELSE prog

mistakeCellsAfterUndo(cells, key) == cells \ {key}

statusAfterUndo(st) == IF st = Won THEN Playing ELSE st

\* the early return of undo
UndoRejected(s) == Len(s.history) = 0

Undo(s) ==
    IF UndoRejected(s) THEN s
    ELSE
    LET lastMove == s.history[Len(s.history)]
        row == lastMove.row
        col == lastMove.col
        oldValue == lastMove.oldValue
        currentValue == s.board[row][col]
    IN  [s EXCEPT !.history = SubSeq(@, 1, Len(@) - 1),
                  !.progress = progressAfterUndo(@, currentValue, oldValue),
                  !.board[row][col] = oldValue,
                  !.mistakeCells = mistakeCellsAfterUndo(@, cellKey(row, col)),
                  !.status = statusAfterUndo(@)]

\* a variant that leaves a terminal status as it is
ResetBoard_keepStatus(s) ==
    [s EXCEPT !.board = s.initialBoard,
              !.mistakes = 0,
              !.mistakeCells = {},
              !.history = <<>>,
              !.notes = EmptyNotes,
              !.progress = countEmpty(s.initialBoard)]

ResetBoard(s) ==
    [s EXCEPT !.board = s.initialBoard,
              !.mistakes = 0,
              !.mistakeCells = {},
              !.history = <<>>,
              !.notes = EmptyNotes,
              !.progress = countEmpty(s.initialBoard),
              !.status = IF @ = Lost \/ @ = Won THEN Playing ELSE @]

ResetGame(s) ==
    [s EXCEPT !.status = Idle,
              !.board = EmptyBoard,
              !.initialBoard = EmptyBoard,
              !.solution = <<>>,
              !.mistakes = 0,
              !.mistakeCells = {},
              !.history = <<>>,
              !.notes = EmptyNotes,
              !.progress = 81]

(***************************************************************************)
(* The multiplayer store: resetGame override and setRemoteState            *)
(***************************************************************************)
MultiplayerResetGame(s) ==
    [ResetGame(s) EXCEPT !.players = NoPlayers,
                         !.roomStatus = Waiting,
                         !.ownerId = NoOwner]

\* a variant that initializes whenever the room is Playing
isGameStarting_anyStatus(s, room) == room.status = Playing

isGameStarting(s, room) == s.status = Idle /\ room.status = Playing

\* a variant that adopts the remote terminal status whatever the local one
statusAfterSnapshot_noGuard(st, room, localPlayerId) ==
    IF /\ localPlayerId \in DOMAIN room.players
       /\ room.players[localPlayerId].status \in {Won, Lost}
    THEN room.players[localPlayerId].status
    ELSE st

\* Only sync local player status if we are NOT just starting
statusAfterSnapshot(st, room, localPlayerId) ==
    IF /\ localPlayerId \in DOMAIN room.players
       /\ room.players[localPlayerId].status \in {Won, Lost}
       /\ st = Playing
    THEN room.players[localPlayerId].status
    ELSE st

\* mistakes after the one-time initialization from the room
mistakesAfterBootstrap(count) == 0

SetRemoteState(s, room, localPlayerId) ==
    LET updatedState == [s EXCEPT !.players = room.players,
                                  !.roomStatus = room.status,
                                  !.ownerId = room.ownerId]
    IN  IF isGameStarting(s, room)
        THEN LET parsedBoard == parseBoard(room.puzzle)
             IN  [updatedState EXCEPT !.board = parsedBoard,
                                      !.initialBoard = parsedBoard,
                                      !.solution = room.solution,
                                      !.difficulty = room.difficulty,
                                      !.status = Playing,
                                      !.progress = countEmpty(parsedBoard),
                                      !.mistakes = mistakesAfterBootstrap(@)]
        ELSE [updatedState EXCEPT
                  !.status = statusAfterSnapshot(@, room, localPlayerId)]

(***************************************************************************)
(* Room snapshots the listener may deliver                                 *)
(***************************************************************************)
Me   == "me"
Them == "them"

Player(id, st) == [id |-> id, status |-> st]

RoomOf(st, pd, mine) ==
    [status |-> st, ownerId |-> Them,
     puzzle |-> pd.puzzle, solution |-> pd.solution,
     difficulty |-> pd.difficulty,
     players |-> IF mine = "absent"
                 THEN [p \in {Them} |-> Player(p, Playing)]
                 ELSE [p \in {Me, Them} |->
                          IF p = Me THEN Player(p, mine)
                          ELSE Player(p, Playing)]]

RoomPuzzle == PuzzleData(1, {<<0, 1>>}, "hard")

Rooms ==
    {RoomOf(Playing, RoomPuzzle, Playing),
     RoomOf(Playing, RoomPuzzle, Lost),
     RoomOf(Finished, RoomPuzzle, Won)}

(***************************************************************************)
(* useAutoFill: the effect that runs after a render in which one of its    *)
(* dependencies changed, and the timeout it schedules.  The effect has no  *)
(* cleanup, so an earlier timeout stays pending; timeouts of equal delay   *)
(* fire in the order they were scheduled.                                  *)
(***************************************************************************)
getThreshold(diff) ==
    CASE diff = "easy" -> 10
      [] diff = "hard" -> 5
      [] OTHER -> 8

\* the difficulty prop the game component hands to useAutoFill
\* (MultiplayerGame passes none: the default applies)
hookDifficulty(s) == IF mode = "single" THEN s.difficulty ELSE "medium"

charAt(str, index) == IF index + 1 \in DOMAIN str THEN str[index + 1] ELSE "?"

\* row-major scan for the first empty cell
emptyCells(b) == {cell \in Cells : b[cell[1]][cell[2]] = Null}

firstEmpty(b) ==
    CHOOSE cell \in emptyCells(b) :
        \A other \in emptyCells(b) :
            cell[1] * 9 + cell[2] <= other[1] * 9 + other[2]

autoFillActive(s) ==
    /\ s.progress <= getThreshold(hookDifficulty(s))
    /\ (s.progress > 0 \/ s.mistakeCells # {})
    /\ s.status = Playing

\* the pending timeouts after the effect ran on store state s
timersAfterEffect(s, tms) ==
    IF autoFillActive(s) /\ emptyCells(s.board) # {}
    THEN LET t == firstEmpty(s.board)
         IN  Append(tms, [r |-> t[1], c |-> t[2],
                          val |-> parseInt(charAt(s.solution,
                                                  t[1] * 9 + t[2]))])
    ELSE tms

activeAfterEffect(s, active) ==
    IF autoFillActive(s)
    THEN IF emptyCells(s.board) # {} THEN firstEmpty(s.board) ELSE active
    ELSE NoCell

\* the store takes state s; the hook's effect runs when rerun holds
Render(s, rerun) ==
    /\ Commit(s)
    /\ IF rerun
       THEN /\ timers' = timersAfterEffect(s, timers)
            /\ Len(timers') <= MaxTimers
            /\ activeAutoFillCell' = activeAfterEffect(s, activeAutoFillCell)
       ELSE UNCHANGED hookVars
    /\ UNCHANGED <<mode, backendVars>>

\* the dependencies of the effect, compared by value
hookDeps(s) == <<s.progress, s.status, s.board, s.solution, s.mistakeCells>>

(***************************************************************************)
(* recordBattleResult: a runTransaction on one battle-score record.  The   *)
(* database runs the update function on the value the client knows (the    *)
(* local cache, empty at first), commits the result if the record still    *)
(* has that value, and otherwise runs the function again on the value the  *)
(* server reported.                                                        *)
(***************************************************************************)
MaxTxn == 3              \* concurrent transactions on the record

Txns == 1..MaxTxn

\* current === null
NoRecord == [present |-> FALSE, opponentName |-> "", wins |-> 0, losses |-> 0]

\* a variant that writes this game's result over the record
recordUpdate_overwrite(current, opponentName, iWon) ==
    [present |-> TRUE, opponentName |-> opponentName,
     wins |-> IF iWon THEN 1 ELSE 0,
     losses |-> IF iWon THEN 0 ELSE 1]

\* the update function handed to runTransaction
recordUpdate(current, opponentName, iWon) ==
    IF ~current.present
    THEN [present |-> TRUE, opponentName |-> opponentName,
          wins |-> IF iWon THEN 1 ELSE 0,
          losses |-> IF iWon THEN 0 ELSE 1]
    ELSE [current EXCEPT !.opponentName = opponentName,
                         !.wins = @ + (IF iWon THEN 1 ELSE 0),
                         !.losses = @ + (IF iWon THEN 0 ELSE 1)]

IdleTxn(iWon) ==
    [pc |-> "idle", iWon |-> iWon, tries |-> 0,
     seen |-> NoRecord, proposed |-> NoRecord]

\* no transaction is running and none will
LedgerIdle ==
    /\ ledger = NoRecord
    /\ txn = [i \in Txns |-> [IdleTxn(FALSE) EXCEPT !.pc = "none"]]

(***************************************************************************)
(* The room in the database: createRoom, joinRoom and startGame of         *)
(* lib/rooms.ts.  joinRoom and startGame read the room (get) and write     *)
(* later (update); other clients' reads and writes come in between.        *)
(***************************************************************************)
MaxPlayers == 4          \* the room is full at 4 players

\* one client more than a room may hold
Clients == 1..(MaxPlayers + 1)

\* the client that calls createRoom
Owner == 1

\* the clients that call joinRoom
Joiners == Clients \ {Owner}

\* the clients whose game component is followed
Viewers == {1, 2}

NoOwnerId == 0

\* !snapshot.exists()
NoRoom ==
    [exists |-> FALSE, status |-> "none", ownerId |-> NoOwnerId,
     players |-> NoPlayers]

\* initialPlayer / newPlayer: status Playing, progress 81
newPlayer(playerId) == Player(playerId, Playing)

\* roomData of createRoom
createdRoom(playerId) ==
    [exists |-> TRUE, status |-> Waiting, ownerId |-> playerId,
     players |-> (playerId :> newPlayer(playerId))]

\* what await get(roomRef) gives: a snapshot, or a rejection
GetOk(r) == [err |-> FALSE, val |-> r]

GetErr == [err |-> TRUE, val |-> NoRoom]

Failure(message) == [success |-> FALSE, message |-> message, write |-> FALSE]

\* a variant without the check of the room status
joinCheck_noStatus(got) ==
    IF got.err THEN Failure("Failed to join room.")
    ELSE IF ~got.val.exists THEN Failure("Room code not found.")
    ELSE IF Cardinality(DOMAIN got.val.players) >= MaxPlayers
         THEN Failure("Room is full (maximum 4 players).")
         ELSE [success |-> TRUE, message |-> "", write |-> TRUE]

\* joinRoom up to its write: the result it returns early, or write = TRUE
\* when it goes on to update(playerRef, newPlayer)
joinCheck(got) ==
    IF got.err THEN Failure("Failed to join room.")
    ELSE IF ~got.val.exists THEN Failure("Room code not found.")
    ELSE IF got.val.status # Waiting
         THEN Failure("Game already in progress or finished.")
    ELSE IF Cardinality(DOMAIN got.val.players) >= MaxPlayers
         THEN Failure("Room is full (maximum 4 players).")
         ELSE [success |-> TRUE, message |-> "", write |-> TRUE]

\* update(playerRef, newPlayer) on room r
joinWrite(r, playerId) ==
    [r EXCEPT !.players = (playerId :> newPlayer(playerId)) @@ @]

\* the rest of joinRoom: the write succeeds or rejects
joinFinish(r, playerId, ok) ==
    IF ok THEN [success |-> TRUE, message |-> "", room |-> joinWrite(r, playerId)]
    ELSE [success |-> FALSE, message |-> "Failed to join room.", room |-> r]

\* updatedPlayers of startGame, from the players it read
updatedPlayers(read) ==
    [p \in DOMAIN read |-> [read[p] EXCEPT !.status = Playing]]

\* update(roomRef, {status, startTime, puzzle, solution, players})
startWrite(r, read) ==
    [r EXCEPT !.status = Playing, !.players = updatedPlayers(read)]

\* a store and component just mounted
FreshClient ==
    [status |-> Idle, roomStatus |-> Waiting, ownerId |-> NoOwnerId,
     players |-> NoPlayers, canCheckVictory |-> FALSE,
     graceTimer |-> FALSE, defeatTimer |-> FALSE,
     dirty |-> FALSE, debouncedStatus |-> Idle, scoreRecorded |-> FALSE,
     gone |-> FALSE, deleteTimer |-> FALSE]

\* the client after onExit: the component is unmounted, its effects are
\* cleaned up, resetGame has run; the deleteRoom timeout is not cleared
exitedClient(deleteScheduled) ==
    [FreshClient EXCEPT !.gone = TRUE, !.deleteTimer = deleteScheduled]

\* isHost = user && ownerId === user.uid, on the client's store k
isHost(k, uid) == k.ownerId = uid

\* the lobby screen (not gameStarted) with the START BATTLE button enabled
startEnabled(k, uid) ==
    /\ k.roomStatus = Waiting
    /\ isHost(k, uid)
    /\ Cardinality(DOMAIN k.players) >= 2

IdleStart == [pc |-> "idle", players |-> NoPlayers]

(***************************************************************************)
(* MultiplayerGame of one client: the store fields its effects read, and   *)
(* the effects themselves.  k0 is the client before a render, k1 the       *)
(* client as rendered; fresh holds when setRemoteState made a new players  *)
(* object.                                                                 *)
(***************************************************************************)
\* setRemoteState on the fields the component's effects read
clientSnapshot(k, r, uid) ==
    [k EXCEPT !.players = r.players,
              !.roomStatus = r.status,
              !.ownerId = r.ownerId,
              !.status = IF isGameStarting(k, r) THEN Playing
                         ELSE statusAfterSnapshot(@, r, uid)]

\* update(playerRef, {status}) on room r
setPlayerStatus(r, uid, st) ==
    [r EXCEPT !.exists = TRUE, !.players = (uid :> Player(uid, st)) @@ @]

\* a variant whose else branch leaves canCheckVictory alone
afterGrace_noReset(k0, k1) ==
    IF <<k1.status, k1.roomStatus>> = <<k0.status, k0.roomStatus>> THEN k1
    ELSE IF k1.status = Playing /\ k1.roomStatus = Playing
         THEN [k1 EXCEPT !.graceTimer = TRUE]
         ELSE [k1 EXCEPT !.graceTimer = FALSE]

\* the safety-delay effect, dependencies [status, roomStatus]
afterGrace(k0, k1) ==
    IF <<k1.status, k1.roomStatus>> = <<k0.status, k0.roomStatus>> THEN k1
    ELSE IF k1.status = Playing /\ k1.roomStatus = Playing
         THEN [k1 EXCEPT !.graceTimer = TRUE]
         ELSE [k1 EXCEPT !.graceTimer = FALSE, !.canCheckVictory = FALSE]

otherPlayers(k, uid) == DOMAIN k.players \ {uid}

\* the automatic-victory effect finds the client the last one standing
allOthersLost(k, uid) ==
    /\ k.status = Playing /\ k.roomStatus = Playing
    /\ k.canCheckVictory
    /\ otherPlayers(k, uid) # {}
    /\ \A p \in otherPlayers(k, uid) : k.players[p].status = Lost

victoryRuns(k0, k1, fresh) ==
    \/ fresh
    \/ <<k1.status, k1.roomStatus, k1.canCheckVictory>>
           # <<k0.status, k0.roomStatus, k0.canCheckVictory>>

\* the room after the automatic-victory effect
roomAfterVictory(r, k0, k1, uid, fresh) ==
    IF victoryRuns(k0, k1, fresh) /\ allOthersLost(k1, uid)
    THEN [setPlayerStatus(r, uid, Won) EXCEPT !.status = Finished]
    ELSE r

\* a variant without the scoreRecorded ref
scoreFires_noRef(k) == k.status \in {Won, Lost}

\* the score effect passes its two early returns
scoreFires(k) == ~k.scoreRecorded /\ k.status \in {Won, Lost}

scoreRuns(k0, k1, fresh) == (fresh \/ k1.status # k0.status) /\ scoreFires(k1)

afterScore(k0, k1, fresh) ==
    IF scoreRuns(k0, k1, fresh) THEN [k1 EXCEPT !.scoreRecorded = TRUE] ELSE k1

\* opponents.forEach(op => recordBattleResult(...))
recordedAfterScore(rec, k0, k1, uid, fresh) ==
    IF scoreRuns(k0, k1, fresh)
    THEN [op \in Clients |->
             IF op \in otherPlayers(k1, uid) THEN rec[op] + 1 ELSE rec[op]]
    ELSE rec

\* a variant without the cleanup that clears the timeout
afterDefeat_noCleanup(k0, k1) ==
    IF <<k1.roomStatus, k1.status>> = <<k0.roomStatus, k0.status>> THEN k1
    ELSE [k1 EXCEPT !.defeatTimer =
                        @ \/ (k1.roomStatus = Finished /\ k1.status = Playing)]

\* the defeat effect, dependencies [roomStatus, status]
afterDefeat(k0, k1) ==
    IF <<k1.roomStatus, k1.status>> = <<k0.roomStatus, k0.status>> THEN k1
    ELSE [k1 EXCEPT !.defeatTimer =
                        k1.roomStatus = Finished /\ k1.status = Playing]

\* the callback of the defeat timeout on room r
roomAfterDefeat(r, k, uid) ==
    IF k.status # Won THEN setPlayerStatus(r, uid, Lost) ELSE r

\* a variant in which a status change does not restart the debounce
afterDebounce_never(k0, k1) == k1

\* useDebounce: a changed value is pending for 500 ms
afterDebounce(k0, k1) ==
    IF k1.status # k0.status THEN [k1 EXCEPT !.dirty = TRUE] ELSE k1

\* the client after the effects of one render
afterRender(k0, k1, fresh) ==
    afterDebounce(k0, afterDefeat(k0, afterScore(k0, afterGrace(k0, k1), fresh)))

\* the debounced publication: batchedUpdates on room r
publish(r, uid, debouncedStatus) ==
    IF debouncedStatus = Idle THEN r
    ELSE IF debouncedStatus = Won
         THEN [setPlayerStatus(r, uid, Won) EXCEPT !.status = Finished]
         ELSE setPlayerStatus(r, uid, debouncedStatus)

\* the status after an accepted setCellValue: unchanged, Won on the last
\* correct digit, Lost on the third mistake
moveStatuses == {Playing, Won, Lost}

\* gameFinished of handleExit
gameFinished(k) == k.status = Won \/ k.status = Lost \/ k.roomStatus = Finished

\* handleExit schedules deleteRoom
deleteScheduled(k, uid) == gameFinished(k) /\ isHost(k, uid)

\* resetBoard
statusAfterResetBoard(st) == IF st = Lost \/ st = Won THEN Playing ELSE st

\* no room, no call, no client
LobbyIdle ==
    /\ dbRoom = NoRoom
    /\ join = [c \in Joiners |-> "idle"]
    /\ start = [c \in Viewers |-> IdleStart]

MatchIdle ==
    /\ client = [c \in Viewers |-> FreshClient]
    /\ recorded = [c \in Viewers |-> [op \in Clients |-> 0]]

BackendIdle == LedgerIdle /\ LobbyIdle /\ MatchIdle

(***************************************************************************)
(* Actions                                                                 *)
(***************************************************************************)
StoreIs(s) ==
    /\ board = s.board
    /\ initialBoard = s.initialBoard
    /\ solution = s.solution
    /\ difficulty = s.difficulty
    /\ status = s.status
    /\ mistakes = s.mistakes
    /\ mistakeCells = s.mistakeCells
    /\ history = s.history
    /\ notes = s.notes
    /\ progress = s.progress
    /\ players = s.players
    /\ roomStatus = s.roomStatus
    /\ ownerId = s.ownerId

InitHook ==
    /\ timers = <<>>
    /\ activeAutoFillCell = NoCell

\* SinglePlayerGame over useSinglePlayerStore
Init == StoreIs(InitialState) /\ InitHook /\ mode = "single" /\ BackendIdle

\* MultiplayerGame over useMultiplayerStore
InitMP == StoreIs(InitialState) /\ InitHook /\ mode = "multi" /\ BackendIdle

\* only SinglePlayerGame calls the store's startGame; a multiplayer round
\* starts with the bootstrap of setRemoteState
startGame ==
    /\ mode = "single"
    /\ \E diff \in Difficulties : \E outcome \in generateOutcomes(diff) :
           Render(TryStartGame(S, outcome), ~outcome.threw)

\* a call the store accepts makes a new mistakeCells set, so the effect
\* runs again; a rejected call changes nothing
setCellValue ==
    \E cell \in PlayCells, value \in PlayValues :
        /\ Rejected(S, cell[1], cell[2], value) \/ Len(history) < MaxHistory
        /\ Render(SetCellValue(S, cell[1], cell[2], value),
                  ~Rejected(S, cell[1], cell[2], value))

\* the effect does not depend on notes
toggleNote ==
    \E cell \in NoteCells, num \in NoteDigits :
        /\ Render(ToggleNote(S, cell[1], cell[2], num), FALSE)

undo == Render(Undo(S), hookDeps(Undo(S)) # hookDeps(S))

resetBoard == Render(ResetBoard(S), TRUE)

resetGame ==
    IF mode = "single" THEN Render(ResetGame(S), TRUE)
    ELSE Render(MultiplayerResetGame(S), TRUE)

\* the oldest pending timeout fires: setCellValue(r, c, val)
autoFillFire ==
    /\ timers # <<>>
    /\ LET t == Head(timers)
           next == SetCellValue(S, t.r, t.c, t.val)
           rejected == Rejected(S, t.r, t.c, t.val)
       IN  /\ rejected \/ Len(history) < MaxHistory
           /\ Commit(next)
           /\ timers' = IF rejected THEN Tail(timers)
                        ELSE timersAfterEffect(next, Tail(timers))
           /\ activeAutoFillCell' =
                  IF rejected THEN activeAutoFillCell
                  ELSE activeAfterEffect(next, activeAutoFillCell)
           /\ UNCHANGED <<mode, backendVars>>

\* the room listener delivers a snapshot
setRemoteState ==
    /\ mode = "multi"
    /\ \E room \in Rooms :
           Render(SetRemoteState(S, room, Me),
                  isGameStarting(S, room)
                      \/ hookDeps(SetRemoteState(S, room, Me)) # hookDeps(S))

Next ==
    \/ startGame
    \/ setCellValue
    \/ toggleNote
    \/ undo
    \/ resetBoard
    \/ resetGame
    \/ autoFillFire

Spec == Init /\ [][Next]_vars

NextMP ==
    \/ setCellValue
    \/ toggleNote
    \/ undo
    \/ resetBoard
    \/ resetGame
    \/ autoFillFire
    \/ setRemoteState

SpecMP == InitMP /\ [][NextMP]_vars

\* either store
InitAny == Init \/ InitMP

NextAny == Next \/ NextMP

SpecAny == InitAny /\ [][NextAny]_vars

(***************************************************************************)
(* The assist scheduler near the end of a game: sessions of either store   *)
(* whose empty-cell count is around the thresholds                         *)
(***************************************************************************)
\* the first n cells of the grid in row-major order
FirstCells(n) == {cell \in Cells : cell[1] * 9 + cell[2] < n}

\* puzzles with 9 blanks (easy, medium) and 6 blanks (hard)
AssistPuzzles ==
    {PuzzleData(1, FirstCells(9), "easy"),
     PuzzleData(1, FirstCells(9), "medium"),
     PuzzleData(1, FirstCells(6), "hard")}

\* the session after startGame, or after the bootstrap of setRemoteState
AssistSession(m, pd) ==
    IF m = "single" THEN StartGame(InitialState, pd)
    ELSE SetRemoteState(InitialState, RoomOf(Playing, pd, Playing), Me)

InitAssist ==
    /\ mode \in {"single", "multi"}
    /\ \E pd \in AssistPuzzles :
           /\ StoreIs(AssistSession(mode, pd))
           /\ timers = timersAfterEffect(AssistSession(mode, pd), <<>>)
           /\ activeAutoFillCell =
                  activeAfterEffect(AssistSession(mode, pd), NoCell)
    /\ BackendIdle

NextAssist ==
    \/ setCellValue
    \/ toggleNote
    \/ undo
    \/ resetBoard
    \/ autoFillFire

SpecAssist == InitAssist /\ [][NextAssist]_vars

(***************************************************************************)
(* A burst of inputs: the player acts faster than the 400 ms timeouts      *)
(* fire, so that several timeouts of the effect are pending at once        *)
(***************************************************************************)
MaxBurst == 3            \* most timeouts pending at once during a burst

\* a session with two empty cells, (0,0) and (0,1)
BurstPuzzle == PuzzleData(0, {<<0, 0>>, <<0, 1>>}, "easy")

\* the store takes state s and the effect runs when rerun holds
RenderBurst(s, rerun) ==
    /\ Commit(s)
    /\ IF rerun
       THEN /\ timers' = timersAfterEffect(s, timers)
            /\ Len(timers') <= MaxBurst
            /\ activeAutoFillCell' = activeAfterEffect(s, activeAutoFillCell)
       ELSE UNCHANGED hookVars
    /\ UNCHANGED <<mode, backendVars>>

InitBurst ==
    /\ mode = "single"
    /\ StoreIs(StartGame(InitialState, BurstPuzzle))
    /\ timers = timersAfterEffect(StartGame(InitialState, BurstPuzzle), <<>>)
    /\ activeAutoFillCell =
           activeAfterEffect(StartGame(InitialState, BurstPuzzle), NoCell)
    /\ BackendIdle

burstSetCellValue ==
    \E cell \in PlayCells, value \in PlayValues :
        /\ Rejected(S, cell[1], cell[2], value) \/ Len(history) < MaxHistory
        /\ RenderBurst(SetCellValue(S, cell[1], cell[2], value),
                       ~Rejected(S, cell[1], cell[2], value))

burstUndo == RenderBurst(Undo(S), hookDeps(Undo(S)) # hookDeps(S))

burstResetBoard == RenderBurst(ResetBoard(S), TRUE)

NextBurst ==
    \/ burstSetCellValue
    \/ burstUndo
    \/ burstResetBoard
    \/ autoFillFire

SpecBurst == InitBurst /\ [][NextBurst]_vars

(***************************************************************************)
(* The player stops: after at most MaxInputs inputs on a fresh session     *)
(* only the pending timeouts of useAutoFill act                            *)
(***************************************************************************)
MaxInputs == 2           \* inputs the player makes before stopping

QuietPuzzles ==
    AssistPuzzles \cup {BurstPuzzle, PuzzleData(1, {<<0, 1>>}, "hard")}

PlayerMoves ==
    {<<cell[1], cell[2], value>> : cell \in PlayCells, value \in PlayValues}

QuietInputs ==
    UNION {[1..n -> PlayerMoves] : n \in 0..MaxInputs}

\* the component after the session started: store, timeouts, marker
Mounted(pd) ==
    [s |-> StartGame(InitialState, pd),
     tms |-> timersAfterEffect(StartGame(InitialState, pd), <<>>),
     act |-> activeAfterEffect(StartGame(InitialState, pd), NoCell)]

\* one call of setCellValue by the player and the render that follows
AfterInput(h, m) ==
    LET next == SetCellValue(h.s, m[1], m[2], m[3])
    IN  IF Rejected(h.s, m[1], m[2], m[3]) THEN h
        ELSE [s |-> next,
              tms |-> timersAfterEffect(next, h.tms),
              act |-> activeAfterEffect(next, h.act)]

RECURSIVE AfterInputs(_, _)
AfterInputs(h, inputs) ==
    IF inputs = <<>> THEN h
    ELSE LET after == AfterInput(h, Head(inputs))
         IN  AfterInputs(after, Tail(inputs))

\* the component when the player stops
QuietComponents ==
    {AfterInputs(Mounted(pd), inputs) :
        pd \in QuietPuzzles, inputs \in QuietInputs}

InitQuiet ==
    /\ mode = "single"
    /\ \E h \in QuietComponents :
           /\ StoreIs(h.s)
           /\ timers = h.tms
           /\ activeAutoFillCell = h.act
    /\ BackendIdle

\* the oldest pending timeout fires: setCellValue(r, c, val)
quietFire ==
    /\ timers # <<>>
    /\ LET t == Head(timers)
           next == SetCellValue(S, t.r, t.c, t.val)
           rejected == Rejected(S, t.r, t.c, t.val)
       IN  /\ Commit(next)
           /\ timers' = IF rejected THEN Tail(timers)
                        ELSE timersAfterEffect(next, Tail(timers))
           /\ activeAutoFillCell' =
                  IF rejected THEN activeAutoFillCell
                  ELSE activeAfterEffect(next, activeAutoFillCell)
           /\ UNCHANGED <<mode, backendVars>>

NextQuiet == quietFire

\* a timeout that was set fires after its 400 ms
TimerFair == WF_vars(quietFire)

SpecQuietFair == InitQuiet /\ [][NextQuiet]_vars /\ TimerFair

(***************************************************************************)
(* The battle-score ledger under concurrent transactions                   *)
(***************************************************************************)
InitLedger ==
    /\ StoreIs(InitialState) /\ InitHook /\ mode = "multi"
    /\ ledger = NoRecord
    /\ \E won \in [Txns -> BOOLEAN] : txn = [i \in Txns |-> IdleTxn(won[i])]
    /\ LobbyIdle /\ MatchIdle

\* the update function runs: the first time on the cached value, which may
\* be empty or current, later on the value the server reported
txnRun(i) ==
    /\ txn[i].pc \in {"idle", "retry"}
    /\ \E seen \in (IF txn[i].pc = "idle" THEN {NoRecord, ledger}
                    ELSE {ledger}) :
           txn' = [txn EXCEPT ![i].pc = "sent",
                              ![i].tries = @ + 1,
                              ![i].seen = seen,
                              ![i].proposed =
                                  recordUpdate(seen, "them", txn[i].iWon)]
    /\ UNCHANGED <<ledger, sliceVars, roomVars, hookVars, mode,
                   lobbyVars, matchVars>>

\* the server takes the proposed value if the record is as the client saw it
txnCommit(i) ==
    /\ txn[i].pc = "sent"
    /\ ledger = txn[i].seen
    /\ ledger' = txn[i].proposed
    /\ txn' = [txn EXCEPT ![i].pc = "done"]
    /\ UNCHANGED <<sliceVars, roomVars, hookVars, mode, lobbyVars, matchVars>>

\* the server rejects the proposed value: the record changed meanwhile
txnReject(i) ==
    /\ txn[i].pc = "sent"
    /\ ledger # txn[i].seen
    /\ txn' = [txn EXCEPT ![i].pc = "retry"]
    /\ UNCHANGED <<ledger, sliceVars, roomVars, hookVars, mode,
                   lobbyVars, matchVars>>

NextLedger ==
    \/ \E i \in Txns : txnRun(i)
    \/ \E i \in Txns : txnCommit(i)
    \/ \E i \in Txns : txnReject(i)

SpecLedger == InitLedger /\ [][NextLedger]_vars

(***************************************************************************)
(* One room and its clients: the lobby calls, the listeners and the game   *)
(* components of the followed clients                                      *)
(***************************************************************************)
InitRoom ==
    /\ StoreIs(InitialState) /\ InitHook /\ mode = "multi"
    /\ LedgerIdle /\ LobbyIdle /\ MatchIdle

\* Lobby: createRoom, then onJoinRoom(roomId)
createRoom ==
    /\ ~dbRoom.exists
    /\ dbRoom' = createdRoom(Owner)
    /\ UNCHANGED <<join, start, matchVars>>

\* joinRoom up to the await of get(roomRef)
joinGet(c) ==
    /\ join[c] \in {"idle", "failed"}
    /\ \E got \in {GetOk(dbRoom), GetErr} :
           join' = [join EXCEPT ![c] = IF joinCheck(got).write
                                       THEN "writing" ELSE "failed"]
    /\ UNCHANGED <<dbRoom, start, matchVars>>

\* joinRoom from update(playerRef, newPlayer) on
joinUpdate(c) ==
    /\ join[c] = "writing"
    /\ \E ok \in BOOLEAN :
           LET result == joinFinish(dbRoom, c, ok)
           IN  /\ dbRoom' = result.room
               /\ join' = [join EXCEPT ![c] = IF result.success
                                              THEN "joined" ELSE "failed"]
    /\ UNCHANGED <<start, matchVars>>

\* the client shows the room's game component
mounted(c) ==
    /\ ~client[c].gone
    /\ IF c = Owner THEN dbRoom.exists ELSE join[c] = "joined"

\* handleStartGame: startGame up to the await of get(roomRef); a rejection
\* or a missing room is thrown, caught and logged
startGet(c) ==
    /\ mounted(c) /\ start[c].pc = "idle"
    /\ startEnabled(client[c], c)
    /\ \E got \in {GetOk(dbRoom), GetErr} :
           start' = [start EXCEPT ![c] =
                         IF got.err \/ ~got.val.exists THEN IdleStart
                         ELSE [pc |-> "updating", players |-> got.val.players]]
    /\ UNCHANGED <<dbRoom, join, matchVars>>

\* startGame from update(roomRef, ...) on
startUpdate(c) ==
    /\ start[c].pc = "updating"
    /\ \E ok \in BOOLEAN :
           dbRoom' = IF ok THEN startWrite(dbRoom, start[c].players) ELSE dbRoom
    /\ start' = [start EXCEPT ![c] = IdleStart]
    /\ UNCHANGED <<join, matchVars>>

\* client c renders k1, its effects run
clientStep(c, k1, fresh) ==
    /\ client' = [client EXCEPT ![c] = afterRender(client[c], k1, fresh)]
    /\ dbRoom' = roomAfterVictory(dbRoom, client[c], k1, c, fresh)
    /\ recorded' = [recorded EXCEPT ![c] =
                        recordedAfterScore(@, client[c], k1, c, fresh)]
    /\ UNCHANGED <<join, start>>

\* onValue: the listener hands the room to setRemoteState
deliver(c) ==
    /\ mounted(c) /\ dbRoom.exists
    /\ clientStep(c, clientSnapshot(client[c], dbRoom, c), TRUE)

\* an accepted setCellValue
localMove(c) ==
    /\ mounted(c) /\ client[c].status = Playing
    /\ \E st \in moveStatuses :
           clientStep(c, [client[c] EXCEPT !.status = st, !.dirty = TRUE],
                      FALSE)

\* undo of a move
localUndo(c) ==
    /\ mounted(c) /\ client[c].status # Idle
    /\ clientStep(c, [client[c] EXCEPT !.status = statusAfterUndo(@),
                                       !.dirty = TRUE], FALSE)

\* resetBoard
localReset(c) ==
    /\ mounted(c) /\ client[c].status # Idle
    /\ clientStep(c, [client[c] EXCEPT !.status = statusAfterResetBoard(@),
                                       !.dirty = TRUE], FALSE)

\* the 3 s safety delay ends: setCanCheckVictory(true)
graceFire(c) ==
    /\ client[c].graceTimer
    /\ clientStep(c, [client[c] EXCEPT !.graceTimer = FALSE,
                                       !.canCheckVictory = TRUE], FALSE)

\* the 1.5 s defeat delay ends
defeatFire(c) ==
    /\ client[c].defeatTimer
    /\ client' = [client EXCEPT ![c].defeatTimer = FALSE]
    /\ dbRoom' = roomAfterDefeat(dbRoom, client[c], c)
    /\ UNCHANGED <<join, start, recorded>>

\* the debounced values catch up and the publication effect runs
debounceFire(c) ==
    /\ client[c].dirty
    /\ client' = [client EXCEPT ![c].dirty = FALSE,
                                ![c].debouncedStatus = client[c].status]
    /\ dbRoom' = publish(dbRoom, c, client[c].status)
    /\ UNCHANGED <<join, start, recorded>>

\* the lobby: from no room to a started round that the listeners report
InitLobby == InitRoom

NextLobby ==
    /\ \/ createRoom
       \/ \E c \in Joiners : joinGet(c)
       \/ \E c \in Joiners : joinUpdate(c)
       \/ \E c \in Viewers : startGet(c)
       \/ \E c \in Viewers : startUpdate(c)
       \/ \E c \in Viewers : deliver(c)
    /\ UNCHANGED <<sliceVars, roomVars, hookVars, mode, ledgerVars>>

SpecLobby == InitLobby /\ [][NextLobby]_vars

\* the round: the owner has started a room of two that both clients show
\* as waiting
waitingRoom == joinWrite(createdRoom(Owner), 2)

startedRoom == startWrite(waitingRoom, waitingRoom.players)

InitMatch ==
    /\ StoreIs(InitialState) /\ InitHook /\ mode = "multi"
    /\ LedgerIdle
    /\ client = [c \in Viewers |-> clientSnapshot(FreshClient, waitingRoom, c)]
    /\ recorded = [c \in Viewers |-> [op \in Clients |-> 0]]
    /\ dbRoom = startedRoom
    /\ join = [c \in Joiners |-> IF c = 2 THEN "joined" ELSE "idle"]
    /\ start = [c \in Viewers |-> IdleStart]

\* handleExit from the quit dialog or a result modal of the game view,
\* then onExit unmounts the component
handleExit(c) ==
    /\ mounted(c) /\ client[c].roomStatus # Waiting
    /\ client' = [client EXCEPT
                      ![c] = exitedClient(deleteScheduled(client[c], c))]
    /\ UNCHANGED <<dbRoom, join, start, recorded>>

\* the 10 s timeout of handleExit ends: deleteRoom(roomId)
deleteFire(c) ==
    /\ client[c].deleteTimer
    /\ client' = [client EXCEPT ![c].deleteTimer = FALSE]
    /\ dbRoom' = NoRoom
    /\ UNCHANGED <<join, start, recorded>>

NextMatch ==
    /\ \/ \E c \in Viewers : deliver(c)
       \/ \E c \in Viewers : localMove(c)
       \/ \E c \in Viewers : localUndo(c)
       \/ \E c \in Viewers : localReset(c)
       \/ \E c \in Viewers : graceFire(c)
       \/ \E c \in Viewers : defeatFire(c)
       \/ \E c \in Viewers : debounceFire(c)
       \/ \E c \in Viewers : handleExit(c)
       \/ \E c \in Viewers : deleteFire(c)
    /\ UNCHANGED <<sliceVars, roomVars, hookVars, mode, ledgerVars>>

SpecMatch == InitMatch /\ [][NextMatch]_vars

(***************************************************************************)
(* One client's component against a room that the other participant       *)
(* writes: the other's publications, defeat mark and victory reach the     *)
(* database as writes of its record and of the room status                 *)
(***************************************************************************)
\* a write of the other participant: its status, and Finished with Won
otherWrite(c) ==
    /\ dbRoom.exists
    /\ \E st \in {Playing, Won, Lost} : dbRoom' = publish(dbRoom, c, st)
    /\ UNCHANGED <<join, start, matchVars>>

NextSolo ==
    /\ \/ deliver(Owner)
       \/ localMove(Owner)
       \/ localUndo(Owner)
       \/ localReset(Owner)
       \/ graceFire(Owner)
       \/ defeatFire(Owner)
       \/ debounceFire(Owner)
       \/ handleExit(Owner)
       \/ deleteFire(Owner)
       \/ otherWrite(2)
    /\ UNCHANGED <<sliceVars, roomVars, hookVars, mode, ledgerVars>>

\* a pending debounce timer of a mounted component fires after 500 ms
DebounceFair ==
    WF_vars(debounceFire(Owner)
                /\ UNCHANGED <<sliceVars, roomVars, hookVars, mode,
                               ledgerVars>>)

SpecSoloFair == InitMatch /\ [][NextSolo]_vars /\ DebounceFair

(***************************************************************************)
(* A round of two connected clients that play until their game ends: no    *)
(* undo, no reset, no exit.  Snapshots are delivered and pending timeouts  *)
(* fire.                                                                   *)
(***************************************************************************)
NextRound ==
    /\ \/ \E c \in Viewers : deliver(c)
       \/ \E c \in Viewers : localMove(c)
       \/ \E c \in Viewers : graceFire(c)
       \/ \E c \in Viewers : defeatFire(c)
       \/ \E c \in Viewers : debounceFire(c)
    /\ UNCHANGED <<sliceVars, roomVars, hookVars, mode, ledgerVars>>

\* the step of client c that changes the state
Fires(c, step) ==
    step /\ UNCHANGED <<sliceVars, roomVars, hookVars, mode, ledgerVars>>

\* the listener of a connected client gets every snapshot, and the
\* timeouts of a mounted component fire
RoundFair ==
    \A c \in Viewers :
        /\ WF_vars(Fires(c, deliver(c)))
        /\ WF_vars(Fires(c, graceFire(c)))
        /\ WF_vars(Fires(c, defeatFire(c)))
        /\ WF_vars(Fires(c, debounceFire(c)))

SpecRoundFair == InitMatch /\ [][NextRound]_vars /\ RoundFair

(***************************************************************************)
(* Claims                                                                  *)
(***************************************************************************)

\* the calls of setCellValue that can come next: the player's inputs and
\* the pending auto-fill applications, as <<row, col, value>>
Moves ==
    {<<cell[1], cell[2], value>> : cell \in PlayCells, value \in PlayValues}
        \cup {<<timers[i].r, timers[i].c, timers[i].val>> : i \in DOMAIN timers}

Move(s, m) == SetCellValue(s, m[1], m[2], m[3])

MoveRejected(s, m) == Rejected(s, m[1], m[2], m[3])

\* the move places a digit that is not the solution's
MoveIncorrect(s, m) ==
    m[3] # Null /\ ~validateMove(s.solution, m[1], m[2], m[3])

NoteToggles == NoteCells \X NoteDigits

\* the given clues of the initial grid
Givens == {cell \in Cells : initialBoard[cell[1]][cell[2]] # Null}

\* cells of store state s whose value is non-empty and is not the solution digit
WrongCells(s) ==
    {cell \in Cells :
        /\ s.board[cell[1]][cell[2]] # Null
        /\ ~validateMove(s.solution, cell[1], cell[2],
                         s.board[cell[1]][cell[2]])}

Terminal == status = Won \/ status = Lost

\* C1: in every reachable state of the store the progress counter equals
\* the number of empty cells of the working grid.
C1_ProgressIsEmptyCount == progress = countEmpty(board)

\* a multiplayer session after bootstrap in which a move filled a cell
C1_Witness ==
    /\ mode = "multi" /\ roomStatus = Playing /\ status = Playing
    /\ Len(history) = 1
    /\ history[1].oldValue = Null
    /\ board[history[1].row][history[1].col] # Null
    /\ progress < countEmpty(initialBoard)

\* C2: every given clue of the initial grid holds the same digit in the
\* working grid, in every reachable state.
C2_GivensKept ==
    \A cell \in Givens :
        board[cell[1]][cell[2]] = initialBoard[cell[1]][cell[2]]

\* C3: while the status is Won or Lost, setCellValue, undo, a pending
\* auto-fill application and setRemoteState leave the working grid as it was.
C3_TerminalGridFrozen ==
    Terminal =>
        /\ \A m \in Moves : Move(S, m).board = board
        /\ Undo(S).board = board
        /\ \A room \in Rooms : SetRemoteState(S, room, Me).board = board

C5_LostRule ==
    /\ mistakes >= 3 => status = Lost
    /\ (mode = "single" /\ status = Lost) => mistakes >= 3
    /\ \A m \in Moves :
           (status # Lost /\ Move(S, m).status = Lost)
               <=> (mistakes < 3 /\ Move(S, m).mistakes = 3)
    /\ status = Lost =>
           /\ \A m \in Moves : Move(S, m).status = Lost
           /\ \A n \in NoteToggles : ToggleNote(S, n[1][1], n[1][2], n[2]).status = Lost
           /\ Undo(S).status = Lost
           /\ mode = "multi" =>
                  \A room \in Rooms : SetRemoteState(S, room, Me).status = Lost

\* the session was lost on the third mistake and a move can still be undone
C5_Witness == status = Lost /\ mistakes = 3 /\ history # <<>>

\* C6: under local play the status is Won if and only if progress is 0 and
\* the mistake set is empty; no state has progress 0, an empty mistake set
\* and status Playing.
C6_WonIff == (status = Won) <=> (progress = 0 /\ mistakeCells = {})

\* C7: an accepted move that leaves the grid full while a cell is still in
\* the mistake set sets the status to Lost.
C7_FullWithMistakeIsLost ==
    \A m \in Moves :
        (/\ ~MoveRejected(S, m)
         /\ Move(S, m).progress = 0
         /\ Move(S, m).mistakeCells # {}) => Move(S, m).status = Lost

\* C8 as claimed: for any move attempted in a non-terminal state,
\* setCellValue followed by undo restores the grid and the progress.
C8_UndoInvertsAttempt ==
    ~Terminal =>
        \A m \in Moves :
            /\ Undo(Move(S, m)).board = board
            /\ Undo(Move(S, m)).progress = progress

\* C8 as amended: for any move that setCellValue accepts, setCellValue
\* followed by undo restores the grid and the progress.
C8_UndoInvertsAccepted ==
    \A m \in Moves :
        ~MoveRejected(S, m) =>
            /\ Undo(Move(S, m)).board = board
            /\ Undo(Move(S, m)).progress = progress

\* a filled cell can be overwritten or cleared, an empty one filled
C8_Witness ==
    /\ status = Playing /\ history # <<>>
    /\ \E m \in Moves : ~MoveRejected(S, m) /\ board[m[1]][m[2]] # Null
                          /\ m[3] = Null
    /\ \E m \in Moves : ~MoveRejected(S, m) /\ board[m[1]][m[2]] = Null

\* what setCellValue, toggleNote and undo do to the mistake counter
C9_LocalTally ==
    /\ \A m \in Moves :
           Move(S, m).mistakes =
               IF ~MoveRejected(S, m) /\ MoveIncorrect(S, m)
               THEN mistakes + 1 ELSE mistakes
    /\ \A n \in NoteToggles : ToggleNote(S, n[1][1], n[1][2], n[2]).mistakes = mistakes
    /\ Undo(S).mistakes = mistakes

C10_UndoNoOp ==
    (Terminal \/ history = <<>>) =>
        /\ Undo(S).board = board
        /\ Undo(S).progress = progress
        /\ Undo(S).mistakeCells = mistakeCells
        /\ Undo(S).history = history
        /\ Undo(S).status = status

\* C11: setCellValue is rejected when the status is terminal, when the cell
\* is a given clue or when the value equals the cell's value, and a rejected
\* call leaves the whole session state unchanged.
C11_RejectedNoOp ==
    \A m \in Moves :
        (\/ Terminal
         \/ initialBoard[m[1]][m[2]] # Null
         \/ board[m[1]][m[2]] = m[3]) => Move(S, m) = S

\* a wrong digit is on the board and can be placed again, and a given clue
\* can be targeted
C11_Witness ==
    /\ status = Playing /\ mistakes > 0
    /\ \E m \in Moves : /\ m[3] # Null /\ board[m[1]][m[2]] = m[3]
                        /\ <<m[1], m[2]>> \in mistakeCells
    /\ \E m \in Moves : initialBoard[m[1]][m[2]] # Null

\* C12: a remote snapshot raises a local Playing status to the Won or Lost
\* value of the local player's remote record, and never changes a local
\* status that is Won or Lost.
C12_ReconcilerMonotone ==
    \A room \in Rooms :
        LET after == SetRemoteState(S, room, Me).status
            remote == room.players[Me].status
        IN  /\ Terminal => after = status
            /\ status = Playing =>
                   after = IF remote \in {Won, Lost} THEN remote ELSE Playing

\* a snapshot ended a local game that had fewer than 3 mistakes
C12_Witness ==
    /\ mode = "multi" /\ status = Lost /\ mistakes < 3
    /\ Me \in DOMAIN players /\ players[Me].status = Lost

C20_ThrowKeepsSession ==
    /\ TryStartGame(S, Thrown) = S
    /\ \A diff \in Difficulties : \A pd \in generatePuzzle(diff) :
           LET after == TryStartGame(S, Returned(pd))
           IN  /\ after.status = Playing
               /\ after.board = parseBoard(pd.puzzle)
               /\ after.initialBoard = after.board
               /\ after.solution = pd.solution
               /\ after.progress = countEmpty(after.board)

\* an Idle single-player session that holds a move, in which startGame may
\* throw
C20_Witness ==
    /\ mode = "single" /\ status = Idle /\ history # <<>>
    /\ \E diff \in Difficulties : Thrown \in generateOutcomes(diff)
    /\ TryStartGame(S, Thrown).history = history

\* the transactions that committed, by what they recorded
DoneWins == {i \in Txns : txn[i].pc = "done" /\ txn[i].iWon}

DoneLosses == {i \in Txns : txn[i].pc = "done" /\ ~txn[i].iWon}

\* C15: concurrent recordBattleResult transactions on one record lose no
\* increment: the record's wins and losses are the numbers of committed
\* transactions that recorded a win and a loss (one win and one loss on an
\* absent record give wins = 1 and losses = 1).
C15_NoLostIncrement ==
    /\ ledger.wins = Cardinality(DoneWins)
    /\ ledger.losses = Cardinality(DoneLosses)
    /\ ledger.present <=> (DoneWins \cup DoneLosses # {})

\* all transactions committed, a win and a loss among them, one of them
\* after being rejected
C15_Witness ==
    /\ \A i \in Txns : txn[i].pc = "done"
    /\ DoneWins # {} /\ DoneLosses # {}
    /\ \E i \in Txns : txn[i].tries >= 2

\* a call of joinRoom on the room as it is must fail at its checks
joinMustFail ==
    \/ ~dbRoom.exists
    \/ dbRoom.status # Waiting
    \/ Cardinality(DOMAIN dbRoom.players) >= MaxPlayers

\* C17: joinRoom returns a failure result with a message and goes on to no
\* write when the room does not exist, when its status is not Waiting or when
\* it has 4 players already; a rejected read and a rejected write give a
\* failure result too, and the rejected write leaves the room as it was.
C17_JoinFailsCleanly ==
    \A c \in Joiners :
        /\ joinMustFail =>
               /\ ~joinCheck(GetOk(dbRoom)).success
               /\ ~joinCheck(GetOk(dbRoom)).write
               /\ joinCheck(GetOk(dbRoom)).message # ""
        /\ ~joinCheck(GetErr).success
        /\ ~joinCheck(GetErr).write
        /\ joinCheck(GetErr).message # ""
        /\ ~joinFinish(dbRoom, c, FALSE).success
        /\ joinFinish(dbRoom, c, FALSE).message # ""
        /\ joinFinish(dbRoom, c, FALSE).room = dbRoom

\* a joiner failed on a started room that has fewer than 4 players
C17_Witness ==
    /\ dbRoom.exists /\ dbRoom.status = Playing
    /\ Cardinality(DOMAIN dbRoom.players) < MaxPlayers
    /\ \E c \in Joiners : join[c] = "failed" /\ c \notin DOMAIN dbRoom.players

\* C18: a room never holds more than four player records, also when several
\* clients call joinRoom concurrently on a room that has three players.
C18_AtMostFourPlayers == Cardinality(DOMAIN dbRoom.players) <= MaxPlayers

\* the calls that have read the room and are about to write
JoinWrites == {c \in Joiners : join[c] = "writing"}

StartWrites == {c \in Viewers : start[c].pc = "updating"}

\* a write by uid that turns room r into after keeps every other record
othersKept(r, after, uid) ==
    \A p \in Clients \ {uid} :
        /\ p \in DOMAIN after.players <=> p \in DOMAIN r.players
        /\ p \in DOMAIN r.players => after.players[p] = r.players[p]

\* C19: only a write of the room owner turns the room status from Waiting
\* to Playing, and every write of a participant leaves the player records
\* of the others as they are.
C19_StarterAndOwnRecord ==
    /\ \A c \in JoinWrites :
           /\ joinWrite(dbRoom, c).status = dbRoom.status
           /\ othersKept(dbRoom, joinWrite(dbRoom, c), c)
    /\ \A c \in StartWrites :
           /\ c = dbRoom.ownerId
           /\ othersKept(dbRoom, startWrite(dbRoom, start[c].players), c)

\* C13: no state of a round has two clients with local status Won.
C13_NoDoubleWin == Cardinality({c \in Viewers : client[c].status = Won}) <= 1

\* C16: a mounted game component calls recordBattleResult at most once for
\* each opponent, whatever the status does after the first terminal status.
C16_RecordedOnce ==
    \A c \in Viewers : \A op \in Clients : recorded[c][op] <= 1

\* a client recorded its result, published Won, and is Lost now: it went
\* back to Playing in between
C16_Witness ==
    \E c \in Viewers :
        /\ client[c].scoreRecorded
        /\ \E op \in Clients \ {c} : recorded[c][op] = 1
        /\ client[c].debouncedStatus = Won /\ client[c].status = Lost

\* the cells and digits toggleNote is tried on: the two blanks, a given clue
ToggleCells == PlayCells \cup {<<1, 1>>}

ToggleDigits == 1..4

Toggle(s, cell, num) == ToggleNote(s, cell[1], cell[2], num)

NotesOf(s, cell) == s.notes[cell[1]][cell[2]]

Ascending(seq) == \A i \in 1..(Len(seq) - 1) : seq[i] < seq[i + 1]

DigitsOf(seq) == {seq[i] : i \in DOMAIN seq}

\* C21: toggleNote changes nothing on a given clue or a cell that holds a
\* value; on an empty cell it removes the digit from the cell's notes if
\* present and adds it if absent, touching nothing else; after any three
\* toggles the notes are strictly ascending, and toggling a digit twice
\* restores the notes.
C21_ToggleNote ==
    \A cell \in ToggleCells : \A d1 \in ToggleDigits :
        LET s1 == Toggle(S, cell, d1)
            taken == initialBoard[cell[1]][cell[2]] # Null
                         \/ board[cell[1]][cell[2]] # Null
        IN  /\ Ascending(NotesOf(S, cell))
            /\ taken => s1 = S
            /\ ~taken =>
                   /\ DigitsOf(NotesOf(s1, cell)) =
                          IF d1 \in DigitsOf(NotesOf(S, cell))
                          THEN DigitsOf(NotesOf(S, cell)) \ {d1}
                          ELSE DigitsOf(NotesOf(S, cell)) \cup {d1}
                   /\ s1 = [S EXCEPT !.notes[cell[1]][cell[2]] =
                                         NotesOf(s1, cell)]
                   /\ \A d2 \in ToggleDigits : \A d3 \in ToggleDigits :
                          LET s3 == Toggle(Toggle(s1, cell, d2), cell, d3)
                          IN  /\ Ascending(NotesOf(s3, cell))
                              /\ Toggle(Toggle(s3, cell, d1), cell, d1) = s3

\* a note is on an empty cell while another cell holds a value
C21_Witness ==
    /\ status = Playing
    /\ \E cell \in ToggleCells :
           board[cell[1]][cell[2]] = Null /\ NotesOf(S, cell) # <<>>
    /\ \E cell \in PlayCells : board[cell[1]][cell[2]] # Null

\* C22: in every reachable state a cell of the working grid that holds a
\* value has no notes.
C22_FilledCellsHaveNoNotes ==
    \A cell \in Cells :
        board[cell[1]][cell[2]] # Null => NotesOf(S, cell) = <<>>

\* C23: whenever the room record is deleted, the room status is Finished and
\* no participant's record says Playing.
C23_DeleteAfterConclusion ==
    [][(dbRoom.exists /\ ~dbRoom'.exists) =>
           /\ dbRoom.status = Finished
           /\ \A p \in DOMAIN dbRoom.players :
                  dbRoom.players[p].status # Playing]_vars

\* C24: from every reachable state with local status Idle, a snapshot of a
\* Playing room leaves a fresh session: both grids are the parsed room
\* puzzle, solution and difficulty are the room's, the mistake counter is 0,
\* mistake set, notes and history are empty, progress is the puzzle's
\* empty-cell count and the status is Playing whatever the local player's
\* remote record says.
C24_BootstrapFresh ==
    status = Idle =>
        \A room \in Rooms :
            room.status = Playing =>
                LET after == SetRemoteState(S, room, Me)
                IN  /\ after.board = parseBoard(room.puzzle)
                    /\ after.initialBoard = parseBoard(room.puzzle)
                    /\ after.solution = room.solution
                    /\ after.difficulty = room.difficulty
                    /\ after.mistakes = 0
                    /\ after.progress = countEmpty(parseBoard(room.puzzle))
                    /\ after.status = Playing
                    /\ after.mistakeCells = {}
                    /\ after.notes = EmptyNotes
                    /\ after.history = <<>>

\* what client c may render next, with the fresh flag of the render: a
\* snapshot, a move, an undo, a reset, the end of the safety delay
Renders(c) ==
    {<<clientSnapshot(client[c], dbRoom, c), TRUE>>}
        \cup {<<[client[c] EXCEPT !.status = st, !.dirty = TRUE], FALSE>> :
                 st \in moveStatuses \cup {statusAfterUndo(client[c].status),
                                           statusAfterResetBoard(client[c].status)}}
        \cup {<<[client[c] EXCEPT !.graceTimer = FALSE,
                                  !.canCheckVictory = TRUE], FALSE>>}

\* C25: canCheckVictory holds only after the safety delay that started when
\* local and room status became Playing has ended, with both still Playing;
\* and a render makes the automatic-victory write only when the client's
\* status and room status are Playing, canCheckVictory holds, another
\* participant is in the room and every other participant's status is Lost;
\* the write sets the client's record to Won and the room to Finished.
C25_AttritionVictoryGuard ==
    \A c \in Viewers :
        /\ client[c].canCheckVictory =>
               /\ client[c].status = Playing
               /\ client[c].roomStatus = Playing
               /\ ~client[c].graceTimer
        /\ \A render \in Renders(c) :
               LET k1 == render[1]
                   after == roomAfterVictory(dbRoom, client[c], k1, c,
                                             render[2])
               IN  after # dbRoom =>
                       /\ k1.status = Playing /\ k1.roomStatus = Playing
                       /\ k1.canCheckVictory
                       /\ DOMAIN k1.players \ {c} # {}
                       /\ \A p \in DOMAIN k1.players \ {c} :
                              k1.players[p].status = Lost
                       /\ after.status = Finished
                       /\ after.players[c].status = Won
                       /\ \A p \in DOMAIN dbRoom.players \ {c} :
                              after.players[p] = dbRoom.players[p]

\* a client that is still Playing has written its victory: the room is
\* Finished, its record Won, the other's Lost
C25_Witness ==
    \E c \in Viewers :
        /\ client[c].status = Playing /\ client[c].canCheckVictory
        /\ allOthersLost(client[c], c)
        /\ dbRoom.exists /\ dbRoom.status = Finished
        /\ c \in DOMAIN dbRoom.players /\ dbRoom.players[c].status = Won

\* C26: the defeat timeout is pending only while the client's room status is
\* Finished and its status Playing (a change of either cancels it); no
\* render writes Lost to the client's record, only the timeout does, and the
\* timeout writes nothing when the local status is Won.
C26_DefeatAfterDelay ==
    \A c \in Viewers :
        /\ client[c].defeatTimer =>
               /\ client[c].roomStatus = Finished
               /\ client[c].status = Playing
               /\ roomAfterDefeat(dbRoom, client[c], c) =
                      setPlayerStatus(dbRoom, c, Lost)
        /\ roomAfterDefeat(dbRoom, [client[c] EXCEPT !.status = Won], c)
               = dbRoom
        /\ \A render \in Renders(c) :
               LET after == roomAfterVictory(dbRoom, client[c], render[1], c,
                                             render[2])
               IN  /\ c \in DOMAIN after.players
                   /\ after.players[c].status = Lost
                   => /\ c \in DOMAIN dbRoom.players
                      /\ dbRoom.players[c].status = Lost

\* the timeout has marked a client Lost that is still Playing in a Finished
\* room and has not published Lost itself
C26_Witness ==
    \E c \in Viewers :
        /\ client[c].status = Playing /\ client[c].roomStatus = Finished
        /\ ~client[c].defeatTimer /\ client[c].debouncedStatus # Lost
        /\ ~client[c].dirty
        /\ c \in DOMAIN dbRoom.players /\ dbRoom.players[c].status = Lost

Scheduled == timersAfterEffect(S, <<>>) # <<>>

\* C28: an auto-fill is scheduled exactly when the status is Playing, an
\* empty cell or an outstanding mistake remains and progress is at or below
\* the threshold of the session's difficulty, in either kind of session.
C28_ThresholdOfSessionDifficulty ==
    Scheduled <=>
        /\ status = Playing
        /\ emptyCells(board) # {} \/ mistakeCells # {}
        /\ progress <= getThreshold(difficulty)

\* what a scan of the working grid of store state s targets
ScanTarget(s) ==
    LET cell == CHOOSE e \in emptyCells(s.board) :
                    \A other \in emptyCells(s.board) :
                        e[1] < other[1] \/ (e[1] = other[1] /\ e[2] <= other[2])
    IN  [r |-> cell[1], c |-> cell[2],
         val |-> parseInt(charAt(s.solution, cell[1] * 9 + cell[2]))]

\* C29: an auto-fill timeout is pending only while the condition that
\* scheduled it holds: the session is Playing (never Idle) and within the
\* threshold, and the timeout is the one for the first empty cell of the
\* grid as it is now.
C29_NoStaleAutoFill ==
    \A i \in DOMAIN timers :
        /\ status = Playing
        /\ autoFillActive(S)
        /\ emptyCells(board) # {}
        /\ timers[i] = ScanTarget(S)

\* C30: a scan that schedules an auto-fill targets the first empty cell in
\* row-major order with the solution digit of that cell and marks it as the
\* pending target; a scan that schedules nothing clears the marker; and a
\* pending application places the solution digit of its cell.
C30_ScanFirstEmpty ==
    /\ Scheduled =>
           /\ timersAfterEffect(S, <<>>) = <<ScanTarget(S)>>
           /\ activeAfterEffect(S, activeAutoFillCell) =
                  <<ScanTarget(S).r, ScanTarget(S).c>>
    /\ ~Scheduled => activeAfterEffect(S, activeAutoFillCell) = NoCell
    /\ \A i \in DOMAIN timers :
           LET after == SetCellValue(S, timers[i].r, timers[i].c, timers[i].val)
           IN  ~Rejected(S, timers[i].r, timers[i].c, timers[i].val) =>
                   /\ after.board[timers[i].r][timers[i].c] =
                          parseInt(charAt(solution,
                                          timers[i].r * 9 + timers[i].c))
                   /\ validateMove(solution, timers[i].r, timers[i].c,
                                   timers[i].val)

\* C31: whenever the status is Won through local play, the working grid
\* equals the solution in all 81 cells.
C31_WonGridIsSolution ==
    status = Won =>
        \A cell \in Cells :
            board[cell[1]][cell[2]] =
                parseInt(charAt(solution, cell[1] * 9 + cell[2]))

\* C32: under fairness of the auto-fill timer, once the session is Playing
\* with progress at or below the assist threshold and an empty cell or an
\* outstanding mistake remains, and the player makes no further input, the
\* session eventually reaches status Won.
C32_AutoFillWins == autoFillActive(S) ~> (status = Won)

\* C33: an auto-fill application never increases the mistake counter and
\* never adds a cell to the mistake set, whatever the store went through
\* since the application was scheduled.
C33_AutoFillNoMistake ==
    \A i \in DOMAIN timers :
        LET after == SetCellValue(S, timers[i].r, timers[i].c, timers[i].val)
        IN  /\ after.mistakes <= mistakes
            /\ after.mistakeCells \subseteq mistakeCells

\* C34: at any time at most one auto-fill application is pending: when the
\* scan runs again, the application scheduled before is cancelled or
\* replaced before a new one is scheduled.
C34_OnePending == Len(timers) <= 1

\* C35: while the status is Idle the session holds no game data: the grid
\* is empty, history and mistake set are empty, the mistake counter is 0
\* and progress is 81; setCellValue, undo and pending timeouts do not
\* change an Idle session.
C35_IdleHoldsNoGame ==
    status = Idle =>
        /\ board = EmptyBoard
        /\ history = <<>>
        /\ mistakeCells = {}
        /\ mistakes = 0
        /\ progress = 81
        /\ \A m \in Moves : Move(S, m) = S
        /\ Undo(S) = S

\* C36: within a round, the status in a player's remote record never goes
\* from Won or Lost back to Playing.
C36_TerminalStatusKept ==
    [][\A p \in Viewers :
          (/\ dbRoom.exists /\ dbRoom'.exists
           /\ p \in DOMAIN dbRoom.players /\ p \in DOMAIN dbRoom'.players
           /\ dbRoom.players[p].status \in {Won, Lost})
              => dbRoom'.players[p].status # Playing]_vars

\* C37: a player whose joinRoom returned success is in the room's player
\* map once the round is Playing, also when startGame ran concurrently
\* with the join.
C37_JoinedPlayerKept ==
    \A c \in Joiners :
        (join[c] = "joined" /\ dbRoom.exists /\ dbRoom.status = Playing)
            => c \in DOMAIN dbRoom.players

\* C38: no player record is added to a room whose status is Playing or
\* Finished, for every interleaving of joinRoom with startGame.
C38_NoJoinAfterStart ==
    [][(dbRoom.exists /\ dbRoom.status \in {Playing, Finished}
            /\ dbRoom'.exists)
          => DOMAIN dbRoom'.players \subseteq DOMAIN dbRoom.players]_vars

\* the local game of every participant has ended
AllDone == \A c \in Viewers : client[c].status \in {Won, Lost}

\* C39: under fairness of timers and snapshot delivery with all clients
\* connected, a started round whose participants can make no more progress
\* eventually has room status Finished, also when all participants lose.
C39_RoundFinishes == AllDone ~> (dbRoom.status = Finished)

\* C40: after resetBoard the working grid equals the initial grid, the
\* mistake counter is 0, the mistake set, notes and history are empty and
\* progress is the initial grid's empty-cell count; the status becomes
\* Playing if it was Won or Lost and is otherwise unchanged; the initial
\* grid and the solution are unchanged.
C40_ResetBoardFrame ==
    LET after == ResetBoard(S)
    IN  /\ after.board = initialBoard
        /\ after.mistakes = 0
        /\ after.mistakeCells = {}
        /\ after.notes = EmptyNotes
        /\ after.history = <<>>
        /\ after.progress = countEmpty(initialBoard)
        /\ Terminal => after.status = Playing
        /\ ~Terminal => after.status = status
        /\ after.initialBoard = initialBoard
        /\ after.solution = solution

\* a lost session with moves, marks and a changed grid, which resetBoard
\* turns into a Playing session on the initial grid
C40_Witness ==
    /\ status = Lost /\ history # <<>> /\ mistakeCells # {}
    /\ board # initialBoard
    /\ ResetBoard(S).status = Playing
    /\ ResetBoard(S).board = initialBoard

====
